---- MODULE Spec2Model ----
(***************************************************************************)
(* Model of Plot3D/objects/base_surface_contour.py: BaseCrossSection, the  *)
(* renderable that shows a 3D scalar field on a textured mesh.             *)
(*                                                                         *)
(* State: the Python objects (objs), the class-level shader storage of     *)
(* each concrete subclass (klass), the OpenGL context (gl) and a record of *)
(* the operation that ran last (last: its name, receiver, outcome and the  *)
(* GL calls it issued).                                                    *)
(*                                                                         *)
(* Every method is an operator on a "machine" record m = [self, cls, gl,   *)
(* bind, calls, err, fail, ret] that threads the receiver, its class storage,    *)
(* the GL context and the call log through the statements of the method.   *)
(* m.err # "" means an exception is propagating: every later statement is  *)
(* skipped.  m.fail names the GL step that raises in this run ("none" when *)
(* no step does).                                                          *)
(*                                                                         *)
(* Numbers: the field samples, extents and offsets are integers.  Mesh     *)
(* coordinates are kept in half units (a stored 1 is 0.5) so that the 0.5  *)
(* of the centering stays exact.  A normalized texel is the pair           *)
(* <<value - vmin, vmax - vmin>>, the numerator and denominator of the     *)
(* division the code performs.                                             *)
(***************************************************************************)
EXTENDS Integers, Sequences, FiniteSets, TLC

VARIABLES objs, klass, gl, last

vars == <<objs, klass, gl, last>>

(* ---------------------------------------------------------------- bounds *)
\* Largest object name the GL context hands out per object kind.
MaxNames == 2

(* ------------------------------------------------------- program values *)
\* The "unset" handle of __vao, __vbo, __tex and __shader_program.
Unset == -1
\* Python's None for an optional constructor argument.
None == -1000

\* Concrete subclasses of BaseCrossSection (each supplies base_model).
Classes == {"PlaneCrossSection", "BoxCrossSection"}

\* base_model() of each subclass: (u,v,w) in half units, u,v,w in [0,1].
base_model(c) ==
  IF c = "PlaneCrossSection"
  THEN << <<0,0,1>>, <<2,0,1>>, <<0,2,1>> >>
  ELSE << <<0,0,0>>, <<2,0,0>>, <<2,2,0>>, <<0,0,2>>, <<2,2,2>>, <<0,2,2>> >>

\* Fields offered to the constructor and to the array setter.
Arrays ==
  { [shape |-> <<1,1,2>>,   data |-> <<1,3>>],
    [shape |-> <<1,1,2>>,   data |-> <<2,2>>],
    [shape |-> <<2,1,1>>,   data |-> <<0,4>>],
    [shape |-> <<1,2>>,     data |-> <<1,3>>],
    [shape |-> <<1,1,1,2>>, data |-> <<0,4>>] }

\* Remaining constructor arguments: offset, x_size, y_size, z_size, vmin, vmax.
Configs ==
  { [offset |-> <<0,0,0>>, x_size |-> None, y_size |-> None, z_size |-> None,
     vmin |-> None, vmax |-> None],
    [offset |-> <<1,0,2>>, x_size |-> 2, y_size |-> None, z_size |-> 3,
     vmin |-> 0, vmax |-> 4],
    [offset |-> <<0,1,0>>, x_size |-> None, y_size |-> 1, z_size |-> None,
     vmin |-> None, vmax |-> 3] }

Cameras == {"camera"}
Projections == {"perspective"}

\* The colormap's 1D texture (colormap.tex), owned by the colormap.
CmapTex == 100

\* GL steps that can raise in a run.
FailPoints == {"none", "shader", "genVAO", "genVBO", "blankData", "meshData",
               "genTex", "texImage", "uniform"}

(* ------------------------------------------------------------- helpers *)
RECURSIVE SeqMin(_), SeqMax(_)
SeqMin(s) == IF Len(s) = 1 THEN s[1]
             ELSE LET r == SeqMin(Tail(s)) IN IF s[1] < r THEN s[1] ELSE r
SeqMax(s) == IF Len(s) = 1 THEN s[1]
             ELSE LET r == SeqMax(Tail(s)) IN IF s[1] > r THEN s[1] ELSE r

Ok(m) == m.err = ""
Raise(m, e) == [m EXCEPT !.err = e]
Call(fn, target, name, data) == [fn |-> fn, target |-> target, name |-> name, data |-> data]
Log(m, c) == [m EXCEPT !.calls = Append(@, c)]

(* ---------------------------------------------------------- GL context *)
\* Parameters of a texture object right after glGenTextures/first bind.
DefaultTexParams ==
  [WRAP_S |-> "GL_REPEAT", WRAP_T |-> "GL_REPEAT", WRAP_R |-> "GL_REPEAT",
   MIN_FILTER |-> "GL_NEAREST_MIPMAP_LINEAR", MAG_FILTER |-> "GL_LINEAR"]

NoImage == [width |-> 0, height |-> 0, depth |-> 0, texels |-> <<>>]

GLInit ==
  [nextVao |-> 1, nextVbo |-> 1, nextTex |-> 1, nextProg |-> 1,
   vaos |-> {}, vbos |-> {}, texs |-> {}, programs |-> {},
   texParams |-> <<>>, texImage |-> <<>>, vboData |-> <<>>, vaoAttribs |-> <<>>,
   samplers |-> [cmap |-> None, field |-> None]]

\* The context's binding points.  Every method binds the object it works on
\* before it uses it and none reads a binding an earlier call left behind,
\* so the bindings are followed through one call (m.bind) and are not part
\* of the state kept between calls.
BindInit ==
  [arrayBuffer |-> 0, vertexArray |-> 0, activeTexture |-> 0,
   texture3D |-> [u \in 0..1 |-> 0], texture1D |-> [u \in 0..1 |-> 0],
   program |-> 0]

glGenVertexArrays(m) ==
  IF ~Ok(m) THEN m
  ELSE IF m.fail = "genVAO" THEN Raise(m, "GLError")
  ELSE LET n == m.gl.nextVao IN
       Log([m EXCEPT !.gl.nextVao = n + 1, !.gl.vaos = @ \cup {n},
                     !.gl.vaoAttribs = (n :> {}) @@ @, !.ret = n],
           Call("glGenVertexArrays", "", n, <<>>))

glGenBuffers(m) ==
  IF ~Ok(m) THEN m
  ELSE IF m.fail = "genVBO" THEN Raise(m, "GLError")
  ELSE LET n == m.gl.nextVbo IN
       Log([m EXCEPT !.gl.nextVbo = n + 1, !.gl.vbos = @ \cup {n},
                     !.gl.vboData = (n :> <<>>) @@ @, !.ret = n],
           Call("glGenBuffers", "", n, <<>>))

glGenTextures(m) ==
  IF ~Ok(m) THEN m
  ELSE IF m.fail = "genTex" THEN Raise(m, "GLError")
  ELSE LET n == m.gl.nextTex IN
       Log([m EXCEPT !.gl.nextTex = n + 1, !.gl.texs = @ \cup {n},
                     !.gl.texParams = (n :> DefaultTexParams) @@ @,
                     !.gl.texImage = (n :> NoImage) @@ @, !.ret = n],
           Call("glGenTextures", "", n, <<>>))

Restrict(f, S) == [x \in S |-> f[x]]

glDeleteVertexArrays(m, n) ==
  IF ~Ok(m) THEN m
  ELSE Log([m EXCEPT !.gl.vaos = @ \ {n},
                     !.gl.vaoAttribs = Restrict(@, DOMAIN @ \ {n}),
                     !.bind.vertexArray = IF @ = n THEN 0 ELSE @],
           Call("glDeleteVertexArrays", "", n, <<>>))

glDeleteBuffers(m, n) ==
  IF ~Ok(m) THEN m
  ELSE Log([m EXCEPT !.gl.vbos = @ \ {n},
                     !.gl.vboData = Restrict(@, DOMAIN @ \ {n}),
                     !.bind.arrayBuffer = IF @ = n THEN 0 ELSE @],
           Call("glDeleteBuffers", "", n, <<>>))

\* Binding a name the context never generated is an error in a core profile.
glBindBuffer(m, n) ==
  IF ~Ok(m) THEN m
  ELSE IF n \notin m.gl.vbos THEN Raise(m, "GLError")
  ELSE Log([m EXCEPT !.bind.arrayBuffer = n], Call("glBindBuffer", "GL_ARRAY_BUFFER", n, <<>>))

glBindVertexArray(m, n) ==
  IF ~Ok(m) THEN m
  ELSE IF n \notin m.gl.vaos THEN Raise(m, "GLError")
  ELSE Log([m EXCEPT !.bind.vertexArray = n], Call("glBindVertexArray", "", n, <<>>))

glActiveTexture(m, unit) ==
  IF ~Ok(m) THEN m
  ELSE Log([m EXCEPT !.bind.activeTexture = unit], Call("glActiveTexture", "", unit, <<>>))

glBindTexture(m, target, n) ==
  IF ~Ok(m) THEN m
  ELSE IF target = "GL_TEXTURE_3D"
  THEN IF n \notin m.gl.texs THEN Raise(m, "GLError")
       ELSE Log([m EXCEPT !.bind.texture3D[m.bind.activeTexture] = n],
                Call("glBindTexture", target, n, <<>>))
  ELSE Log([m EXCEPT !.bind.texture1D[m.bind.activeTexture] = n],
           Call("glBindTexture", target, n, <<>>))

\* glTexParameterf / glTexParameteri on the 3D texture bound to the active unit.
glTexParameter(m, pname, value) ==
  IF ~Ok(m) THEN m
  ELSE LET t == m.bind.texture3D[m.bind.activeTexture] IN
       Log([m EXCEPT !.gl.texParams[t][pname] = value],
           Call("glTexParameter", pname, t, value))

\* glBufferData on the buffer bound to GL_ARRAY_BUFFER.
glBufferData(m, point, size, data) ==
  IF ~Ok(m) THEN m
  ELSE IF m.fail = point THEN Raise(m, "GLError")
  ELSE LET b == m.bind.arrayBuffer IN
       Log([m EXCEPT !.gl.vboData[b] = IF size = 0 THEN <<>> ELSE data],
           Call("glBufferData", "GL_ARRAY_BUFFER", b, size))

\* glTexImage3D on the 3D texture bound to the active unit.
glTexImage3D(m, width, height, depth, data) ==
  IF ~Ok(m) THEN m
  ELSE IF m.fail = "texImage" THEN Raise(m, "GLError")
  ELSE LET t == m.bind.texture3D[m.bind.activeTexture] IN
       Log([m EXCEPT !.gl.texImage[t] =
                [width |-> width, height |-> height, depth |-> depth,
                 texels |-> data]],
           Call("glTexImage3D", "GL_TEXTURE_3D", t, data))

glVertexAttribPointer(m, index, size, stride, offset) ==
  IF ~Ok(m) THEN m
  ELSE Log([m EXCEPT !.gl.vaoAttribs[m.bind.vertexArray] =
                @ \cup {[index |-> index, size |-> size, stride |-> stride,
                         offset |-> offset, buffer |-> m.bind.arrayBuffer,
                         enabled |-> FALSE]}],
           Call("glVertexAttribPointer", "", index, <<size, stride, offset>>))

glEnableVertexAttribArray(m, index) ==
  IF ~Ok(m) THEN m
  ELSE Log([m EXCEPT !.gl.vaoAttribs[m.bind.vertexArray] =
                {IF a.index = index THEN [a EXCEPT !.enabled = TRUE] ELSE a : a \in @}],
           Call("glEnableVertexAttribArray", "", index, <<>>))

\* glGetUniformLocation followed by glUniform1i for a sampler uniform.
glUniform1i(m, uniform, value) ==
  IF ~Ok(m) THEN m
  ELSE IF m.fail = "uniform" THEN Raise(m, "GLError")
  ELSE Log([m EXCEPT !.gl.samplers[uniform] = value],
           Call("glUniform1i", uniform, value, <<>>))

glDrawArrays(m, mode, first, count) ==
  IF ~Ok(m) THEN m
  ELSE Log(m, Call("glDrawArrays", mode, m.bind.vertexArray, <<first, count>>))

\* Compiling both shader stages and linking them into a new program object.
glCreateProgram(m, owner) ==
  IF ~Ok(m) THEN m
  ELSE IF m.fail = "shader" THEN Raise(m, "GLError")
  ELSE LET n == m.gl.nextProg IN
       Log([m EXCEPT !.gl.nextProg = n + 1,
                     !.gl.programs = @ \cup {[name |-> n, owner |-> owner]},
                     !.ret = n],
           Call("glLinkProgram", owner, n, <<>>))

glUseProgram(m, n) ==
  IF ~Ok(m) THEN m
  ELSE IF n \notin {p.name : p \in m.gl.programs} THEN Raise(m, "GLError")
  ELSE Log([m EXCEPT !.bind.program = n], Call("glUseProgram", "", n, <<>>))

glUniformMatrix4fv(m, uniform, value) ==
  IF ~Ok(m) THEN m
  ELSE Log(m, Call("glUniformMatrix4fv", uniform, m.bind.program, value))

(* ------------------------------------------------- BaseObject (base.py) *)
\* BaseObject.__init__: a new object is not initialized.
BaseObject_init(c) == [cls |-> c, initialized |-> FALSE]

\* class_initialize without its guard: every call builds a program.
class_initialize_unguarded(m) ==
  IF ~Ok(m) THEN m
  ELSE LET m1 == glCreateProgram(m, m.self.cls) IN
       IF ~Ok(m1) THEN m1
       ELSE [m1 EXCEPT !.cls.shader_program = m1.ret,
                       !.cls.class_initialized = TRUE]

\* BaseObject.class_initialize: builds the shader program of the concrete
\* class once, guarded by the class's "already initialized" flag.
class_initialize(m) ==
  IF ~Ok(m) \/ m.cls.class_initialized THEN m
  ELSE LET m1 == glCreateProgram(m, m.self.cls) IN
       IF ~Ok(m1) THEN m1
       ELSE [m1 EXCEPT !.cls.shader_program = m1.ret,
                       !.cls.class_initialized = TRUE]

\* BaseObject.render: activates the shared program and uploads the view and
\* projection matrices.
BaseObject_render(m, camera, projection) ==
  LET m1 == glUseProgram(m, m.cls.shader_program)
      m2 == glUniformMatrix4fv(m1, "projection", projection)
  IN  glUniformMatrix4fv(m2, "view", camera)

(* ------------------------------------------------------ BaseCrossSection *)
ClassInit == [shader_program |-> Unset, class_initialized |-> FALSE]

Default(arg, value) == IF arg = None THEN value ELSE arg

\* One row of self.triangles: (x, y, z, u, v, w), in half units.
Vertex(uvw, offset, x_size, y_size, z_size) ==
  LET positions == [k \in 1..3 |-> uvw[k] - 1 + 2 * offset[k]] IN
  << positions[1] * x_size, positions[2] * y_size, positions[3] * z_size,
     uvw[1], uvw[2], uvw[3] >>

\* The constructor rejecting only the fields of fewer than 3 dimensions.
BaseCrossSection_init_atleast3(m, array, cfg) ==
  IF Len(array.shape) < 3 THEN Raise(m, "ValueError")
  ELSE LET x_size == Default(cfg.x_size, array.shape[1])
           y_size == Default(cfg.y_size, array.shape[2])
           z_size == Default(cfg.z_size, array.shape[3])
           uvw    == base_model(m.self.cls)
       IN [m EXCEPT !.self =
             [cls |-> m.self.cls, initialized |-> m.self.initialized,
              array |-> array, offset |-> SubSeq(cfg.offset, 1, 3),
              x_size |-> x_size, y_size |-> y_size, z_size |-> z_size,
              vmin |-> Default(cfg.vmin, SeqMin(array.data)),
              vmax |-> Default(cfg.vmax, SeqMax(array.data)),
              triangles |-> [k \in 1..Len(uvw) |->
                               Vertex(uvw[k], cfg.offset, x_size, y_size, z_size)],
              vao |-> Unset, vbo |-> Unset, tex |-> Unset]]

BaseCrossSection_init(m, array, cfg) ==
  IF Len(array.shape) # 3 THEN Raise(m, "ValueError")
  ELSE LET x_size == Default(cfg.x_size, array.shape[1])
           y_size == Default(cfg.y_size, array.shape[2])
           z_size == Default(cfg.z_size, array.shape[3])
           uvw    == base_model(m.self.cls)
       IN [m EXCEPT !.self =
             [cls |-> m.self.cls, initialized |-> m.self.initialized,
              array |-> array, offset |-> SubSeq(cfg.offset, 1, 3),
              x_size |-> x_size, y_size |-> y_size, z_size |-> z_size,
              vmin |-> Default(cfg.vmin, SeqMin(array.data)),
              vmax |-> Default(cfg.vmax, SeqMax(array.data)),
              triangles |-> [k \in 1..Len(uvw) |->
                               Vertex(uvw[k], cfg.offset, x_size, y_size, z_size)],
              vao |-> Unset, vbo |-> Unset, tex |-> Unset]]

SetAttr(m, attr, value) == IF Ok(m) THEN [m EXCEPT !.self[attr] = value] ELSE m

setBuffers(m) ==
  LET m1 == glBindBuffer(m, m.self.vbo) IN
  glBufferData(m1, "meshData", Len(m.self.triangles) * 6 * 4, m.self.triangles)

createTexture(m) ==
  LET m1 == IF Ok(m) /\ m.self.tex = Unset
            THEN LET g == glGenTextures(m) IN SetAttr(g, "tex", g.ret)
            ELSE m
      m2 == glBindTexture(m1, "GL_TEXTURE_3D", m1.self.tex)
      m3 == glTexParameter(m2, "WRAP_S", "GL_CLAMP_TO_EDGE")
      m4 == glTexParameter(m3, "WRAP_T", "GL_CLAMP_TO_EDGE")
      m5 == glTexParameter(m4, "MAG_FILTER", "GL_NEAREST")
  IN  glTexParameter(m5, "MIN_FILTER", "GL_NEAREST")

\* (array - vmin) / (vmax - vmin), flattened: numerator and denominator.
Normalize(array, vmin, vmax) ==
  [k \in 1..Len(array.data) |-> <<array.data[k] - vmin, vmax - vmin>>]

setTexture(m, array) ==
  LET m1 == IF Ok(m) /\ m.self.tex = Unset THEN createTexture(m) ELSE m
      data == Normalize(array, m1.self.vmin, m1.self.vmax)
      height == array.shape[1]
      width  == array.shape[2]
      depth  == array.shape[3]
      m2 == glBindTexture(m1, "GL_TEXTURE_3D", m1.self.tex)
  IN  glTexImage3D(m2, width, height, depth, data)

\* createBuffers without the destruction of the existing buffers.
createBuffers_leaking(m) ==
  LET m2 == m
      g1 == glGenVertexArrays(m2)
      m3 == SetAttr(g1, "vao", g1.ret)
      g2 == glGenBuffers(m3)
      m4 == SetAttr(g2, "vbo", g2.ret)
      m5 == glBindBuffer(m4, m4.self.vbo)
      m6 == glBufferData(m5, "blankData", 0, <<>>)
      m7 == glBindVertexArray(m6, m6.self.vao)
      m8 == glVertexAttribPointer(m7, 0, 3, 24, 0)
      m9 == glEnableVertexAttribArray(m8, 0)
      m10 == glVertexAttribPointer(m9, 1, 3, 24, 12)
  IN  glEnableVertexAttribArray(m10, 1)

createBuffers(m) ==
  LET m1 == IF Ok(m) /\ m.self.vao # Unset
            THEN SetAttr(glDeleteVertexArrays(m, m.self.vao), "vao", Unset)
            ELSE m
      m2 == IF Ok(m1) /\ m1.self.vbo # Unset
            THEN SetAttr(glDeleteBuffers(m1, m1.self.vbo), "vbo", Unset)
            ELSE m1
      g1 == glGenVertexArrays(m2)
      m3 == SetAttr(g1, "vao", g1.ret)
      g2 == glGenBuffers(m3)
      m4 == SetAttr(g2, "vbo", g2.ret)
      m5 == glBindBuffer(m4, m4.self.vbo)
      m6 == glBufferData(m5, "blankData", 0, <<>>)
      m7 == glBindVertexArray(m6, m6.self.vao)
      m8 == glVertexAttribPointer(m7, 0, 3, 24, 0)
      m9 == glEnableVertexAttribArray(m8, 0)
      m10 == glVertexAttribPointer(m9, 1, 3, 24, 12)
  IN  glEnableVertexAttribArray(m10, 1)

\* initialize without the early return of an initialized object.
initialize_unguarded(m) ==
  LET m1 == class_initialize(m)
      m2 == createBuffers(m1)
      m3 == setBuffers(m2)
      m4 == setTexture(m3, m3.self.array)
      m5 == glUniform1i(m4, "cmap", 0)
      m6 == glUniform1i(m5, "field", 1)
  IN  SetAttr(m6, "initialized", TRUE)

\* initialize marking the object before the work is done.
initialize_marked_first(m) ==
  IF m.self.initialized THEN m
  ELSE LET m0 == SetAttr(m, "initialized", TRUE)
           m1 == class_initialize(m0)
           m2 == createBuffers(m1)
           m3 == setBuffers(m2)
           m4 == setTexture(m3, m3.self.array)
           m5 == glUniform1i(m4, "cmap", 0)
       IN  glUniform1i(m5, "field", 1)

initialize(m) ==
  IF m.self.initialized THEN m
  ELSE LET m1 == class_initialize(m)
           m2 == createBuffers(m1)
           m3 == setBuffers(m2)
           m4 == setTexture(m3, m3.self.array)
           m5 == glUniform1i(m4, "cmap", 0)
           m6 == glUniform1i(m5, "field", 1)
       IN  SetAttr(m6, "initialized", TRUE)

\* The setter without the shape check.
array_setter_unchecked(m, new_array) ==
  LET m1 == SetAttr(m, "array", new_array) IN
  IF m1.self.initialized THEN setTexture(m1, m1.self.array) ELSE m1

\* The setter taking a new color range from the new field.
array_setter_rescaled(m, new_array) ==
  IF new_array.shape # m.self.array.shape THEN Raise(m, "ValueError")
  ELSE LET m1 == SetAttr(m, "array", new_array)
           m2 == SetAttr(m1, "vmin", SeqMin(new_array.data))
           m3 == SetAttr(m2, "vmax", SeqMax(new_array.data))
       IN IF m3.self.initialized THEN setTexture(m3, m3.self.array) ELSE m3

array_setter(m, new_array) ==
  IF new_array.shape # m.self.array.shape THEN Raise(m, "ValueError")
  ELSE LET m1 == SetAttr(m, "array", new_array) IN
       IF m1.self.initialized THEN setTexture(m1, m1.self.array) ELSE m1

\* render drawing as many vertices as the mesh has floats.
render_by_size(m, camera, projection) ==
  LET m1 == BaseObject_render(m, camera, projection)
      m2 == glActiveTexture(m1, 0)
      m3 == glBindTexture(m2, "GL_TEXTURE_1D", CmapTex)
      m4 == glActiveTexture(m3, 1)
      m5 == glBindTexture(m4, "GL_TEXTURE_3D", m4.self.tex)
      m6 == glBindVertexArray(m5, m5.self.vao)
      m7 == glBindBuffer(m6, m6.self.vbo)
  IN  glDrawArrays(m7, "GL_TRIANGLES", 0, Len(m7.self.triangles) * 6)

render(m, camera, projection) ==
  LET m1 == BaseObject_render(m, camera, projection)
      m2 == glActiveTexture(m1, 0)
      m3 == glBindTexture(m2, "GL_TEXTURE_1D", CmapTex)
      m4 == glActiveTexture(m3, 1)
      m5 == glBindTexture(m4, "GL_TEXTURE_3D", m4.self.tex)
      m6 == glBindVertexArray(m5, m5.self.vao)
      m7 == glBindBuffer(m6, m6.self.vbo)
  IN  glDrawArrays(m7, "GL_TRIANGLES", 0, Len(m7.self.triangles))

(* ------------------------------------------------------------ the system *)
Machine(self, cls, fail) ==
  [self |-> self, cls |-> cls, gl |-> gl, bind |-> BindInit, calls |-> <<>>,
   err |-> "", fail |-> fail, ret |-> 0]

Result(m) == IF m.err = "" THEN "ok" ELSE m.err

\* The GL context still has names of these kinds to hand out (bounds the model).
Room(counters) == \A k \in counters : gl[k] <= MaxNames

Done(op, i, m, arg) ==
  last' = [op |-> op, inst |-> i, result |-> Result(m), calls |-> m.calls,
           arg |-> arg]

Commit(op, i, m, arg) ==
  /\ objs' = [objs EXCEPT ![i] = m.self]
  /\ klass' = [klass EXCEPT ![m.self.cls] = m.cls]
  /\ gl' = m.gl
  /\ Done(op, i, m, arg)

Init ==
  /\ objs = <<>>
  /\ klass = [c \in Classes |-> ClassInit]
  /\ gl = GLInit
  /\ last = [op |-> "none", inst |-> 0, result |-> "ok", calls |-> <<>>,
             arg |-> <<>>]

Live == DOMAIN objs

\* obj = Subclass(array, offset, x_size, y_size, z_size, vmin, vmax); the
\* objects are numbered in the order of their construction.
Construct(i, c, array, cfg) ==
  /\ i = Len(objs) + 1
  /\ LET m == BaseCrossSection_init(Machine(BaseObject_init(c), klass[c], "none"), array, cfg) IN
     /\ objs' = IF Ok(m) THEN Append(objs, m.self) ELSE objs
     /\ klass' = [klass EXCEPT ![c] = m.cls]
     /\ gl' = m.gl
     /\ Done("construct", i, m, array)

\* obj.initialize()
Initialize(i, fail) ==
  /\ i \in Live
  /\ Room({"nextVao", "nextVbo", "nextTex", "nextProg"})
  /\ Commit("initialize", i, initialize(Machine(objs[i], klass[objs[i].cls], fail)), <<>>)

\* obj.createBuffers()
CreateBuffers(i, fail) ==
  /\ i \in Live
  /\ Room({"nextVao", "nextVbo"})
  /\ Commit("createBuffers", i, createBuffers(Machine(objs[i], klass[objs[i].cls], fail)), <<>>)

\* obj.setBuffers()
SetBuffers(i, fail) ==
  /\ i \in Live
  /\ Commit("setBuffers", i, setBuffers(Machine(objs[i], klass[objs[i].cls], fail)), <<>>)

\* obj.createTexture()
CreateTexture(i, fail) ==
  /\ i \in Live
  /\ Room({"nextTex"})
  /\ Commit("createTexture", i, createTexture(Machine(objs[i], klass[objs[i].cls], fail)), <<>>)

\* obj.array = new_array
SetArray(i, new_array, fail) ==
  /\ i \in Live
  /\ Room({"nextTex"})
  /\ Commit("array", i, array_setter(Machine(objs[i], klass[objs[i].cls], fail), new_array), new_array)

\* obj.render(camera, projection)
Render(i, camera, projection) ==
  /\ i \in Live
  /\ Commit("render", i, render(Machine(objs[i], klass[objs[i].cls], "none"), camera, projection),
            <<camera, projection>>)

\* The operations of one object of the set I, with fields from A and
\* constructor arguments from C.
Lifecycle(I, A, C) ==
  \/ \E i \in I, c \in Classes, a \in A, cfg \in C : Construct(i, c, a, cfg)
  \/ \E i \in I, f \in FailPoints : Initialize(i, f)
  \/ \E i \in I, f \in {"none", "genVAO", "genVBO", "blankData"} : CreateBuffers(i, f)
  \/ \E i \in I, a \in A, f \in {"none", "texImage"} : SetArray(i, a, f)
  \/ \E i \in I, cam \in Cameras, p \in Projections : Render(i, cam, p)

\* The helper methods setBuffers and createTexture, called directly.
Helpers(I) ==
  \/ \E i \in I, f \in {"none", "meshData"} : SetBuffers(i, f)
  \/ \E i \in I, f \in {"none", "genTex"} : CreateTexture(i, f)

\* One object, every field and every constructor argument, every method.
Next == Lifecycle({1}, Arrays, Configs) \/ Helpers({1})

Spec == Init /\ [][Next]_vars

\* Two objects of any two classes, one 3D field (and the fields that are not
\* 3D) and the default arguments.
SharedArrays == {a \in Arrays : a.data = <<1,3>> \/ Len(a.shape) # 3}
SharedConfigs == {cfg \in Configs : cfg.offset = <<0,0,0>>}
NextShared == Lifecycle({1, 2}, SharedArrays, SharedConfigs)

SpecShared == Init /\ [][NextShared]_vars

(* ---------------------------------------------------------------- claims *)
\* The calls of the last operation to the GL function fn.
CallsTo(fn) == {k \in 1..Len(last.calls) : last.calls[k].fn = fn}

ProgramsOf(c) == {p \in gl.programs : p.owner = c}

\* C1: over any sequence of initialize() calls on any number of objects of
\* one concrete class, the context holds at most one program built for the
\* class (programs are never deleted, so a second build would show as a
\* second program); it exists as soon as the class is initialized or one of
\* its objects is, and the class's shader_program is its handle.
C1_SharedProgramOnce ==
  \A c \in Classes :
    /\ Cardinality(ProgramsOf(c)) <= 1
    /\ gl.nextProg - 1 = Cardinality(gl.programs)
    /\ klass[c].class_initialized <=> ProgramsOf(c) # {}
    /\ ProgramsOf(c) # {} =>
         ProgramsOf(c) = {[name |-> klass[c].shader_program, owner |-> c]}
    /\ ProgramsOf(c) = {} => klass[c].shader_program = Unset
    /\ \A i \in Live : objs[i].cls = c /\ objs[i].initialized => ProgramsOf(c) # {}

\* Two initialized objects of one class, the second of which was initialized
\* without building a program.
C1_Witness ==
  /\ Len(objs) = 2
  /\ objs[1].cls = objs[2].cls
  /\ objs[1].initialized /\ objs[2].initialized
  /\ last.op = "initialize" /\ last.result = "ok"
  /\ CallsTo("glGenVertexArrays") # {}
  /\ CallsTo("glLinkProgram") = {}

\* C2: initialize() on an initialized object is a no-op: it issues no GL
\* call and leaves the object (handles, flag and all), the class storage and
\* the GL objects as they were.
C2_InitializeIdempotent ==
  [][ (last'.op = "initialize" /\ last'.inst \in Live /\ objs[last'.inst].initialized)
        => /\ last'.calls = <<>>
           /\ last'.result = "ok"
           /\ UNCHANGED <<objs, klass, gl>> ]_vars

\* initialize() has just returned from its guard on an initialized object.
C2_Witness ==
  /\ last.op = "initialize" /\ last.result = "ok" /\ last.calls = <<>>
  /\ objs[last.inst].initialized
  /\ objs[last.inst].vao # Unset /\ objs[last.inst].tex # Unset

\* C3: assigning a field whose shape differs from the stored field's raises
\* ValueError, issues no GL call and leaves the object and the GL objects as
\* they were; assigning a field of the same shape passes the check (it ends
\* without error unless the texture upload itself raises) and leaves the
\* shape and the extents x_size, y_size, z_size as they were.  Initialized
\* or not.
C3_SetterShapeCheck ==
  [][ (last'.op = "array" /\ last'.inst \in Live) =>
        LET i == last'.inst
            new_array == last'.arg
        IN /\ new_array.shape # objs[i].array.shape =>
                /\ last'.result = "ValueError"
                /\ last'.calls = <<>>
                /\ UNCHANGED <<objs, klass, gl>>
           /\ new_array.shape = objs[i].array.shape =>
                /\ last'.result # "ValueError"
                /\ last'.result = "ok" \/ CallsTo("glTexImage3D")' = {}
                /\ objs'[i].array.shape = objs[i].array.shape
                /\ objs'[i].x_size = objs[i].x_size
                /\ objs'[i].y_size = objs[i].y_size
                /\ objs'[i].z_size = objs[i].z_size ]_vars

\* A 3D field of another shape has just been refused by an initialized object.
C3_Witness ==
  /\ last.op = "array" /\ last.result = "ValueError"
  /\ Len(last.arg.shape) = 3
  /\ objs[last.inst].initialized
  /\ objs[last.inst].array # last.arg

\* C4: a successful same-shape assignment stores the new field and changes
\* nothing else of the object (vmin, vmax, triangles, vao, vbo, tex, flag);
\* on an initialized object it uploads the texture exactly once, to the
\* object's texture, normalized with the vmin/vmax held before, and
\* allocates nothing; on an uninitialized object it issues no GL call.
C4_SetterUpload ==
  [][ (last'.op = "array" /\ last'.result = "ok" /\ last'.inst \in Live) =>
        LET i == last'.inst
            new_array == last'.arg
            texels == Normalize(new_array, objs[i].vmin, objs[i].vmax)
        IN /\ objs' = [objs EXCEPT ![i].array = new_array]
           /\ klass' = klass
           /\ objs[i].initialized =>
                /\ Cardinality(CallsTo("glTexImage3D")') = 1
                /\ \A k \in CallsTo("glTexImage3D")' :
                     /\ last'.calls[k].name = objs[i].tex
                     /\ last'.calls[k].data = texels
                /\ gl'.texImage[objs[i].tex].texels = texels
                /\ gl' = [gl EXCEPT !.texImage[objs[i].tex] = gl'.texImage[objs[i].tex]]
                /\ \A k \in 1..Len(last'.calls) :
                     last'.calls[k].fn \in {"glBindTexture", "glTexImage3D"}
           /\ ~objs[i].initialized => last'.calls = <<>> /\ gl' = gl ]_vars

\* An initialized object has just taken a field whose own minimum and
\* maximum are not its vmin and vmax.
C4_Witness ==
  /\ last.op = "array" /\ last.result = "ok"
  /\ objs[last.inst].initialized
  /\ CallsTo("glTexImage3D") # {}
  /\ SeqMin(last.arg.data) # objs[last.inst].vmin
  /\ SeqMax(last.arg.data) # objs[last.inst].vmax

\* C5: constructing with a field that is not 3-dimensional raises
\* ValueError without a GL call: no object is created and the GL objects and
\* the class storage (the shared program) stay as they were.
C5_ConstructorShapeCheck ==
  [][ (last'.op = "construct" /\ Len(last'.arg.shape) # 3) =>
        /\ last'.result = "ValueError"
        /\ last'.calls = <<>>
        /\ UNCHANGED <<objs, klass, gl>> ]_vars

\* A 4D field has just been refused while the context holds the resources
\* of an earlier object.
C5_Witness ==
  /\ last.op = "construct" /\ last.result = "ValueError"
  /\ Len(last.arg.shape) = 4
  /\ gl.programs # {} /\ gl.texs # {}

\* The vertex of base-model coordinate uvw as the specification places it:
\* centered, scaled by the extents, then moved by the offset (half units).
CenteredScaledMoved(uvw, o) ==
  << (uvw[1] - 1) * o.x_size + 2 * o.offset[1],
     (uvw[2] - 1) * o.y_size + 2 * o.offset[2],
     (uvw[3] - 1) * o.z_size + 2 * o.offset[3],
     uvw[1], uvw[2], uvw[3] >>

\* C6: every mesh vertex of every object has the world position
\* ((u-0.5)*x_size + offset_x, (v-0.5)*y_size + offset_y,
\* (w-0.5)*z_size + offset_z) and the texture coordinate (u,v,w).
C6_MeshPlacement ==
  \A i \in Live :
    LET uvw == base_model(objs[i].cls) IN
    /\ Len(objs[i].triangles) = Len(uvw)
    /\ \A k \in 1..Len(uvw) :
         objs[i].triangles[k] = CenteredScaledMoved(uvw[k], objs[i])

\* The handles of object i that the last operation generated itself.
Generated(fn) == {last.calls[k].name : k \in CallsTo(fn)}

\* The last operation was a completed rebuild of an object's buffers.
Rebuilt ==
  /\ last.op \in {"createBuffers", "initialize"}
  /\ last.result = "ok"
  /\ CallsTo("glGenVertexArrays") # {}

Handles(attr) == {objs[i][attr] : i \in Live} \ {Unset}

\* C7 as stated: after a rebuild none of vao, vbo and tex refers to a handle
\* that existed before it, and no handle allocated earlier is left undeleted.
C7_AllThreeRecreated ==
  Rebuilt =>
    LET o == objs[last.inst] IN
    /\ o.vao \in Generated("glGenVertexArrays")
    /\ o.vbo \in Generated("glGenBuffers")
    /\ o.tex = Unset \/ o.tex \in Generated("glGenTextures")
    /\ gl.vaos = Handles("vao") /\ gl.vbos = Handles("vbo") /\ gl.texs = Handles("tex")

\* C7 amended: a new object has the three handles unset; the vertex array
\* and the vertex buffer are destroyed and recreated together by a rebuild
\* (after it both are handles generated by that rebuild), and at all times
\* the context holds no vertex array or buffer other than the ones the
\* objects refer to.  The texture is not rebuilt: every texture ever
\* generated is still alive and is the texture of exactly one object.
C7_BuffersRecreatedTextureKept ==
  /\ (last.op = "construct" /\ last.result = "ok") =>
       LET o == objs[last.inst] IN o.vao = Unset /\ o.vbo = Unset /\ o.tex = Unset
  /\ Rebuilt =>
       LET o == objs[last.inst] IN
       /\ o.vao \in Generated("glGenVertexArrays")
       /\ o.vbo \in Generated("glGenBuffers")
  /\ gl.vaos = Handles("vao")
  /\ gl.vbos = Handles("vbo")
  /\ gl.texs = 1..(gl.nextTex - 1)
  /\ gl.texs = Handles("tex")
  /\ \A i, j \in Live : (i # j /\ objs[i].tex # Unset) => objs[i].tex # objs[j].tex
  /\ \A i, j \in Live : (i # j /\ objs[i].vao # Unset) => objs[i].vao # objs[j].vao
  /\ \A i, j \in Live : (i # j /\ objs[i].vbo # Unset) => objs[i].vbo # objs[j].vbo

\* A rebuild has just replaced earlier buffers and kept the earlier texture.
C7_Witness ==
  /\ Rebuilt
  /\ CallsTo("glDeleteVertexArrays") # {} /\ CallsTo("glDeleteBuffers") # {}
  /\ objs[last.inst].tex # Unset
  /\ CallsTo("glGenTextures") = {}

\* C8: render() on an initialized object leaves the object (field, extents,
\* vmin/vmax, mesh, flag, handles), the class storage and the GL objects as
\* they were; a call that completes has issued exactly one draw, a triangle
\* list from vertex 0 over as many vertices as the mesh has.
C8_RenderFrame ==
  [][ (last'.op = "render" /\ last'.inst \in Live /\ objs[last'.inst].initialized) =>
        LET i == last'.inst IN
        /\ UNCHANGED <<objs, klass, gl>>
        /\ Cardinality(CallsTo("glDrawArrays")') <= 1
        /\ last'.result = "ok" =>
             /\ Cardinality(CallsTo("glDrawArrays")') = 1
             /\ \A k \in CallsTo("glDrawArrays")' :
                  /\ k = Len(last'.calls)
                  /\ last'.calls[k].target = "GL_TRIANGLES"
                  /\ last'.calls[k].name = objs[i].vao
                  /\ last'.calls[k].data = <<0, Len(objs[i].triangles)>> ]_vars

\* An initialized object has just been drawn.
C8_Witness ==
  /\ last.op = "render" /\ last.result = "ok"
  /\ objs[last.inst].initialized
  /\ CallsTo("glDrawArrays") # {}

\* The GL steps of a complete initialization, in the log of the last call.
AllStepsLogged ==
  /\ CallsTo("glGenVertexArrays") # {}
  /\ CallsTo("glGenBuffers") # {}
  /\ Cardinality(CallsTo("glBufferData")) = 2
  /\ CallsTo("glTexImage3D") # {}
  /\ Cardinality(CallsTo("glUniform1i")) = 2

\* C9: initialize() on an uninitialized object either raises and leaves the
\* flag unset, or completes every step (program built, buffers allocated,
\* mesh uploaded, texture uploaded, samplers bound) and only then sets the
\* flag; it never returns without having done either, so a call after a
\* failure runs the initialization again.
C9_InitializeAllOrNothing ==
  [][ (last'.op = "initialize" /\ last'.inst \in Live /\ ~objs[last'.inst].initialized) =>
        LET i == last'.inst
            c == objs[i].cls
        IN /\ last'.result # "ok" => ~objs'[i].initialized
           /\ last'.result = "ok" => objs'[i].initialized
           /\ last'.calls # <<>> \/ last'.result # "ok"
           /\ objs'[i].initialized =>
                /\ AllStepsLogged'
                /\ klass'[c].class_initialized
                /\ gl'.vboData[objs'[i].vbo] = objs[i].triangles
                /\ gl'.texImage[objs'[i].tex].texels =
                     Normalize(objs[i].array, objs[i].vmin, objs[i].vmax)
                /\ gl'.samplers = [cmap |-> 0, field |-> 1] ]_vars

\* initialize() has just failed after allocating: an error result, GL calls
\* made, the flag unset.
C9_Witness ==
  /\ last.op = "initialize" /\ last.result = "GLError"
  /\ CallsTo("glGenVertexArrays") # {}
  /\ ~objs[last.inst].initialized

\* C10: when initialize() completes on a fresh object, the texture it
\* generated has clamp-to-edge wrapping on S, T and R and nearest filtering
\* for minification and magnification, all set before the upload.
C10_TextureConfigured ==
  (last.op = "initialize" /\ last.result = "ok" /\ CallsTo("glGenTextures") # {}) =>
    LET t == objs[last.inst].tex IN
    /\ t \in Generated("glGenTextures")
    /\ gl.texParams[t] =
         [WRAP_S |-> "GL_CLAMP_TO_EDGE", WRAP_T |-> "GL_CLAMP_TO_EDGE",
          WRAP_R |-> "GL_CLAMP_TO_EDGE",
          MIN_FILTER |-> "GL_NEAREST", MAG_FILTER |-> "GL_NEAREST"]
    /\ \A k \in CallsTo("glTexParameter"), u \in CallsTo("glTexImage3D") : k < u

====
